---- MODULE Spec2Model ----
(***************************************************************************)
(* A model of the SoundComputer register machine                           *)
(* (src/utils/machines/soundcomputer.rs) and of the duet driver loop of    *)
(* day 18 (src/bin/day18.rs, solve_part2).                                 *)
(*                                                                         *)
(* A machine is a record holding the fields of struct SoundComputer.  The  *)
(* loop of SoundComputer::execute is modelled one iteration per step, so   *)
(* that a program that never leaves the loop is a behaviour of the model   *)
(* and not an undefined value; the public operations of a machine are      *)
(* enabled only while that machine is not inside execute.                  *)
(*                                                                         *)
(* Five specifications share the state:                                    *)
(*   Spec      one machine, either mode, under any sequence of execute,    *)
(*             receive_sounds, take_sent_sounds and update_register calls; *)
(*   DuetSpec  two duet-mode machines under the loop of solve_part2;       *)
(*   Part1Spec one standalone machine run once, as solve_part1 does;       *)
(*   LoadSpec  the program text parsed line by line, then Part1Spec;       *)
(*   KnotSpec  calculate_sparse_hash, one length of the list per step.     *)
(***************************************************************************)
EXTENDS Integers, Sequences, FiniteSets, TLC

VARIABLES
    instructions,   \* the program both machines were built from
    comp,           \* comp[0], comp[1]: the two SoundComputer values
    executing,      \* executing[i]: machine i is inside the loop of execute
    drv,            \* position of the caller: "api", or a place in a driver
    raw_input,      \* the lines of the program text being loaded
    knot            \* the arguments and locals of calculate_sparse_hash

vars == <<instructions, comp, executing, drv, raw_input, knot>>

(***************************************************************************)
(* Bounds of the model.                                                    *)
(***************************************************************************)
\* longest program drawn from the instruction pool
MaxLen == 2
\* longest program drawn from the instruction pool of the duet
MaxDuetLen == 3
\* longest strand given to calculate_sparse_hash
MaxStrand == 3
\* most lengths in the list given to calculate_sparse_hash
MaxLengths == 2
\* greatest length in that list
MaxLength == 4
\* greatest starting cursor
MaxCursor == 3
\* greatest starting skip
MaxSkip == 1
\* most lines of a program text of more than one line
MaxLines == 2
\* most operand fields after the first word of a line of program text
MaxOperands == 2
\* longest program drawn from the instruction pool of solve_part1
MaxRunLen == 3
\* registers of the machine of solve_part1 hold values in -MaxRunVal .. MaxRunVal
MaxRunVal == 9
\* registers hold values in -MaxVal .. MaxVal (i64 in the code)
MaxVal == 3
\* most values held by a queue (VecDeque is unbounded in the code)
MaxQueue == 2
\* cap on total_sounds_sent (u64 in the code)
MaxSent == 2
\* cap on mul_executions_count (usize in the code)
MaxMul == 2

Vals == (0 - MaxVal) .. MaxVal

(***************************************************************************)
(* Instructions and their arguments.                                       *)
(***************************************************************************)
\* the 26 register names 'a'..='z'
RegisterNames ==
    { "a", "b", "c", "d", "e", "f", "g", "h", "i", "j", "k", "l", "m",
      "n", "o", "p", "q", "r", "s", "t", "u", "v", "w", "x", "y", "z" }

\* InstructionArgument::Value { val }
Value(v) == [kind |-> "Value", val |-> v, reg |-> ""]

\* InstructionArgument::Register { reg }
Register(r) == [kind |-> "Register", val |-> 0, reg |-> r]

\* a field an instruction variant does not have
NoArg == [kind |-> "None", val |-> 0, reg |-> ""]

Snd(arg) == [op |-> "Snd", reg |-> "", arg |-> arg, arg1 |-> NoArg, arg2 |-> NoArg]
Set(reg, arg) == [op |-> "Set", reg |-> reg, arg |-> arg, arg1 |-> NoArg, arg2 |-> NoArg]
Add(reg, arg) == [op |-> "Add", reg |-> reg, arg |-> arg, arg1 |-> NoArg, arg2 |-> NoArg]
Mul(reg, arg) == [op |-> "Mul", reg |-> reg, arg |-> arg, arg1 |-> NoArg, arg2 |-> NoArg]
Mod(reg, arg) == [op |-> "Mod", reg |-> reg, arg |-> arg, arg1 |-> NoArg, arg2 |-> NoArg]
Rcv(reg) == [op |-> "Rcv", reg |-> reg, arg |-> NoArg, arg1 |-> NoArg, arg2 |-> NoArg]
Jgz(arg1, arg2) == [op |-> "Jgz", reg |-> "", arg |-> NoArg, arg1 |-> arg1, arg2 |-> arg2]
Sub(reg, arg) == [op |-> "Sub", reg |-> reg, arg |-> arg, arg1 |-> NoArg, arg2 |-> NoArg]
Jnz(arg1, arg2) == [op |-> "Jnz", reg |-> "", arg |-> NoArg, arg1 |-> arg1, arg2 |-> arg2]

(***************************************************************************)
(* struct SoundComputer and its methods, as operators on a machine record. *)
(***************************************************************************)
\* Option<i64>: None is the empty sequence, Some(v) is <<v>>
None == << >>

Some(v) == << v >>

\* new with the last sent sound initialised to a sound of 0
new_LastSoundZero(duet_mode) ==
    [ registers            |-> [c \in RegisterNames |-> 0],
      duet_mode            |-> duet_mode,
      pc                   |-> 0,
      sounds_sent          |-> << >>,
      sounds_received      |-> << >>,
      awaiting_input       |-> FALSE,
      halted               |-> FALSE,
      total_sounds_sent    |-> 0,
      last_sound_sent      |-> Some(0),
      mul_executions_count |-> 0 ]

\* SoundComputer::new(instructions, duet_mode); the program is the variable
\* instructions, shared read-only by every machine built from it
new(duet_mode) ==
    [ registers            |-> [c \in RegisterNames |-> 0],
      duet_mode            |-> duet_mode,
      pc                   |-> 0,
      sounds_sent          |-> << >>,
      sounds_received      |-> << >>,
      awaiting_input       |-> FALSE,
      halted               |-> FALSE,
      total_sounds_sent    |-> 0,
      last_sound_sent      |-> None,
      mul_executions_count |-> 0 ]

\* Result<i64, RegisterReadError>
read_register(m, register) ==
    IF register \notin DOMAIN m.registers
    THEN [ok |-> FALSE, val |-> 0]
    ELSE [ok |-> TRUE, val |-> m.registers[register]]

\* update_register without the contains_key test: the insert adds the name
update_register_InsertsAny(m, register, value) ==
    [ok |-> TRUE,
     m |-> [m EXCEPT !.registers =
               [c \in DOMAIN m.registers \cup {register} |->
                   IF c = register THEN value ELSE m.registers[c]]]]

\* Result<(), RegisterWriteError>, with the machine after the call
update_register(m, register, value) ==
    IF register \notin DOMAIN m.registers
    THEN [ok |-> FALSE, m |-> m]
    ELSE [ok |-> TRUE, m |-> [m EXCEPT !.registers[register] = value]]

\* take_sent_sounds that starts the total-sent counter over
take_sent_sounds_ResetsTotal(m) ==
    [taken |-> m.sounds_sent,
     m |-> [m EXCEPT !.sounds_sent = << >>, !.total_sounds_sent = 0]]

\* take_sent_sounds that hands the queue over without replacing it
take_sent_sounds_KeepsQueue(m) ==
    [taken |-> m.sounds_sent, m |-> m]

\* the taken sounds, with the machine after the call
take_sent_sounds(m) ==
    [taken |-> m.sounds_sent, m |-> [m EXCEPT !.sounds_sent = << >>]]

\* receive_sounds that queues the sounds and leaves the wait alone
receive_sounds_KeepsAwaiting(m, sounds) ==
    [m EXCEPT !.sounds_received = @ \o sounds]

\* receive_sounds that ends the wait on every call, an empty batch included
receive_sounds_AlwaysWakes(m, sounds) ==
    LET pushed == m.sounds_received \o sounds
    IN  [m EXCEPT !.sounds_received = pushed,
                  !.awaiting_input = FALSE]

\* receive_sounds with a wrong wake-up: sounds in the queue clear halted too
receive_sounds_ClearsHalted(m, sounds) ==
    LET pushed == m.sounds_received \o sounds
    IN  [m EXCEPT !.sounds_received = pushed,
                  !.awaiting_input = IF pushed # << >> THEN FALSE ELSE @,
                  !.halted = IF pushed # << >> THEN FALSE ELSE @]

receive_sounds(m, sounds) ==
    LET pushed == m.sounds_received \o sounds
    IN  [m EXCEPT !.sounds_received = pushed,
                  !.awaiting_input = IF pushed # << >> THEN FALSE ELSE @]

get_last_sent_sound(m) == m.last_sound_sent

is_awaiting_input(m) == m.awaiting_input

is_halted(m) == m.halted

get_total_sounds_sent(m) == m.total_sounds_sent

get_mul_executions_count(m) == m.mul_executions_count

decode_instruction_argument(m, arg) ==
    IF arg.kind = "Value"
    THEN [ok |-> TRUE, val |-> arg.val]
    ELSE read_register(m, arg.reg)

\* i64::unsigned_abs
unsigned_abs(x) == IF x < 0 THEN 0 - x ELSE x

\* the i64 remainder of Rust's %: truncated, with the sign of the dividend
\* (b # 0; a zero divisor panics before this is computed)
Rem(a, b) ==
    IF a < 0 THEN 0 - (unsigned_abs(a) % unsigned_abs(b))
    ELSE a % unsigned_abs(b)

\* conduct_pc_jump that restarts the program on every backward jump
conduct_pc_jump_BackToStart(m, jmp) ==
    IF jmp < 0
    THEN LET jump_value == unsigned_abs(jmp)
         IN  IF jump_value > m.pc
             THEN [ret |-> TRUE, m |-> [m EXCEPT !.halted = TRUE]]
             ELSE [ret |-> FALSE, m |-> [m EXCEPT !.pc = 0]]
    ELSE [ret |-> FALSE, m |-> [m EXCEPT !.pc = @ + unsigned_abs(jmp)]]

\* conduct_pc_jump with the comparison off by one: a negative jump whose
\* magnitude equals the program counter halts instead of landing on index 0
conduct_pc_jump_HaltsAtStart(m, jmp) ==
    IF jmp < 0
    THEN LET jump_value == unsigned_abs(jmp)
         IN  IF jump_value >= m.pc
             THEN [ret |-> TRUE, m |-> [m EXCEPT !.halted = TRUE]]
             ELSE [ret |-> FALSE, m |-> [m EXCEPT !.pc = @ - jump_value]]
    ELSE [ret |-> FALSE, m |-> [m EXCEPT !.pc = @ + unsigned_abs(jmp)]]

\* conduct_pc_jump that reports a forward jump past the end as leaving the
\* instruction space, without marking the machine halted
conduct_pc_jump_ReturnsPastEnd(m, jmp) ==
    IF jmp < 0
    THEN LET jump_value == unsigned_abs(jmp)
         IN  IF jump_value > m.pc
             THEN [ret |-> TRUE, m |-> [m EXCEPT !.halted = TRUE]]
             ELSE [ret |-> FALSE, m |-> [m EXCEPT !.pc = @ - jump_value]]
    ELSE [ret |-> m.pc + unsigned_abs(jmp) >= Len(instructions),
          m |-> [m EXCEPT !.pc = @ + unsigned_abs(jmp)]]

\* conduct_pc_jump: ret is the returned bool, m the machine after the call
conduct_pc_jump(m, jmp) ==
    IF jmp < 0
    THEN LET jump_value == unsigned_abs(jmp)
         IN  IF jump_value > m.pc
             THEN [ret |-> TRUE, m |-> [m EXCEPT !.halted = TRUE]]
             ELSE [ret |-> FALSE, m |-> [m EXCEPT !.pc = @ - jump_value]]
    ELSE [ret |-> FALSE, m |-> [m EXCEPT !.pc = @ + unsigned_abs(jmp)]]

(***************************************************************************)
(* The arms of the match in execute.  Each yields the machine after the    *)
(* arm and how control leaves it: "next" falls through to self.pc += 1,    *)
(* "continue" restarts the loop, "return" leaves execute, "panic" aborts   *)
(* the process (a remainder with a zero divisor).                          *)
(***************************************************************************)
ExecSnd(m, arg) ==
    LET value == decode_instruction_argument(m, arg).val
    IN  [flow |-> "next",
         m |-> [m EXCEPT !.sounds_sent = Append(@, value),
                         !.total_sounds_sent = @ + 1,
                         !.last_sound_sent = Some(value)]]

ExecSet(m, reg, arg) ==
    LET value == decode_instruction_argument(m, arg).val
    IN  [flow |-> "next", m |-> update_register(m, reg, value).m]

\* the Add arm restarting the loop without the pc increment
ExecAdd_Continues(m, reg, arg) ==
    LET value == decode_instruction_argument(m, arg).val
    IN  [flow |-> "continue", m |-> [m EXCEPT !.registers[reg] = @ + value]]

ExecAdd(m, reg, arg) ==
    LET value == decode_instruction_argument(m, arg).val
    IN  [flow |-> "next", m |-> [m EXCEPT !.registers[reg] = @ + value]]

ExecMul(m, reg, arg) ==
    LET value == decode_instruction_argument(m, arg).val
    IN  [flow |-> "next",
         m |-> [m EXCEPT !.registers[reg] = @ * value,
                         !.mul_executions_count = @ + 1]]

ExecMod(m, reg, arg) ==
    LET value == decode_instruction_argument(m, arg).val
    IN  IF value = 0
        THEN [flow |-> "panic", m |-> m]
        ELSE [flow |-> "next",
              m |-> [m EXCEPT !.registers[reg] = Rem(@, value)]]

\* Rcv that takes the newest queued sound, pop_back for pop_front
ExecRcv_TakesNewest(m, reg) ==
    LET value == read_register(m, reg).val
    IN  IF ~m.duet_mode /\ value # 0
        THEN [flow |-> "return", m |-> m]
        ELSE IF m.sounds_received = << >>
             THEN [flow |-> "return", m |-> [m EXCEPT !.awaiting_input = TRUE]]
             ELSE LET sound_received ==
                          m.sounds_received[Len(m.sounds_received)]
                      popped == [m EXCEPT !.sounds_received =
                                     SubSeq(@, 1, Len(@) - 1)]
                  IN  [flow |-> "next",
                       m |-> update_register(popped, reg, sound_received).m]

\* Rcv that steps over itself when it starts to wait
ExecRcv_AwaitSkipsRcv(m, reg) ==
    LET value == read_register(m, reg).val
    IN  IF ~m.duet_mode /\ value # 0
        THEN [flow |-> "return", m |-> m]
        ELSE IF m.sounds_received = << >>
             THEN [flow |-> "return",
                   m |-> [m EXCEPT !.awaiting_input = TRUE, !.pc = @ + 1]]
             ELSE LET sound_received == Head(m.sounds_received)
                      popped == [m EXCEPT !.sounds_received = Tail(@)]
                  IN  [flow |-> "next",
                       m |-> update_register(popped, reg, sound_received).m]

\* Rcv that marks the machine halted when it recovers in standalone mode
ExecRcv_RecoverHalts(m, reg) ==
    LET value == read_register(m, reg).val
    IN  IF ~m.duet_mode /\ value # 0
        THEN [flow |-> "return", m |-> [m EXCEPT !.halted = TRUE]]
        ELSE IF m.sounds_received = << >>
             THEN [flow |-> "return", m |-> [m EXCEPT !.awaiting_input = TRUE]]
             ELSE LET sound_received == Head(m.sounds_received)
                      popped == [m EXCEPT !.sounds_received = Tail(@)]
                  IN  [flow |-> "next",
                       m |-> update_register(popped, reg, sound_received).m]

ExecRcv(m, reg) ==
    LET value == read_register(m, reg).val
    IN  IF ~m.duet_mode /\ value # 0
        THEN [flow |-> "return", m |-> m]
        ELSE IF m.sounds_received = << >>
             THEN [flow |-> "return", m |-> [m EXCEPT !.awaiting_input = TRUE]]
             ELSE LET sound_received == Head(m.sounds_received)
                      popped == [m EXCEPT !.sounds_received = Tail(@)]
                  IN  [flow |-> "next",
                       m |-> update_register(popped, reg, sound_received).m]

\* Jgz without the continue: a taken jump is followed by self.pc += 1
ExecJgz_FallsThrough(m, arg1, arg2) ==
    LET check_value == decode_instruction_argument(m, arg1).val
        jmp == decode_instruction_argument(m, arg2).val
    IN  IF check_value > 0
        THEN LET j == conduct_pc_jump(m, jmp)
             IN  [flow |-> IF j.ret THEN "return" ELSE "next", m |-> j.m]
        ELSE [flow |-> "next", m |-> m]

ExecJgz(m, arg1, arg2) ==
    LET check_value == decode_instruction_argument(m, arg1).val
        jmp == decode_instruction_argument(m, arg2).val
    IN  IF check_value > 0
        THEN LET j == conduct_pc_jump(m, jmp)
             IN  [flow |-> IF j.ret THEN "return" ELSE "continue", m |-> j.m]
        ELSE [flow |-> "next", m |-> m]

\* the Sub arm with its operands the wrong way round
ExecSub_Reversed(m, reg, arg) ==
    LET value == decode_instruction_argument(m, arg).val
    IN  [flow |-> "next", m |-> [m EXCEPT !.registers[reg] = value - @]]

ExecSub(m, reg, arg) ==
    LET value == decode_instruction_argument(m, arg).val
    IN  [flow |-> "next", m |-> [m EXCEPT !.registers[reg] = @ - value]]

\* Jnz with the test of Jgz: a negative first operand does not jump
ExecJnz_OnlyPositive(m, arg1, arg2) ==
    LET check_value == decode_instruction_argument(m, arg1).val
        jmp == decode_instruction_argument(m, arg2).val
    IN  IF check_value > 0
        THEN LET j == conduct_pc_jump(m, jmp)
             IN  [flow |-> IF j.ret THEN "return" ELSE "continue", m |-> j.m]
        ELSE [flow |-> "next", m |-> m]

ExecJnz(m, arg1, arg2) ==
    LET check_value == decode_instruction_argument(m, arg1).val
        jmp == decode_instruction_argument(m, arg2).val
    IN  IF check_value # 0
        THEN LET j == conduct_pc_jump(m, jmp)
             IN  [flow |-> IF j.ret THEN "return" ELSE "continue", m |-> j.m]
        ELSE [flow |-> "next", m |-> m]

\* match self.instructions[self.pc] (the Vec is indexed from 0)
ExecInstruction(m, ins) ==
    CASE ins.op = "Snd" -> ExecSnd(m, ins.arg)
      [] ins.op = "Set" -> ExecSet(m, ins.reg, ins.arg)
      [] ins.op = "Add" -> ExecAdd(m, ins.reg, ins.arg)
      [] ins.op = "Mul" -> ExecMul(m, ins.reg, ins.arg)
      [] ins.op = "Mod" -> ExecMod(m, ins.reg, ins.arg)
      [] ins.op = "Rcv" -> ExecRcv(m, ins.reg)
      [] ins.op = "Jgz" -> ExecJgz(m, ins.arg1, ins.arg2)
      [] ins.op = "Sub" -> ExecSub(m, ins.reg, ins.arg)
      [] ins.op = "Jnz" -> ExecJnz(m, ins.arg1, ins.arg2)

\* the first guard of execute without the test of awaiting_input
ExecuteReturnsAtOnce_IgnoresAwaiting(m) == m.halted

\* the guard of execute without the test of halted
ExecuteReturnsAtOnce_IgnoresHalted(m) == m.awaiting_input

\* the guard at the top of execute: TRUE when execute returns at once
ExecuteReturnsAtOnce(m) == m.halted \/ m.awaiting_input

\* the loop of execute without self.halted = true after the break
ExecuteIteration_NoHalt(m, prog) ==
    IF m.pc >= Len(prog)
    THEN [flow |-> "return", m |-> m]
    ELSE LET r == ExecInstruction(m, prog[m.pc + 1])
         IN  IF r.flow = "next"
             THEN [flow |-> "continue", m |-> [r.m EXCEPT !.pc = @ + 1]]
             ELSE r

\* one iteration of the loop of execute on program prog: the bounds check
\* with the break and the halt after the loop, or one instruction
ExecuteIteration(m, prog) ==
    IF m.pc >= Len(prog)
    THEN [flow |-> "return", m |-> [m EXCEPT !.halted = TRUE]]
    ELSE LET r == ExecInstruction(m, prog[m.pc + 1])
         IN  IF r.flow = "next"
             THEN [flow |-> "continue", m |-> [r.m EXCEPT !.pc = @ + 1]]
             ELSE r

(***************************************************************************)
(* Programs.  Instruction::parse_raw_input only yields instructions of the *)
(* nine variants whose registers are letters a..z; the programs of the     *)
(* model are all sequences of at most MaxLen instructions of a pool.       *)
(***************************************************************************)
RECURSIVE SeqsUpTo(_, _)
SeqsUpTo(S, n) ==
    IF n = 0 THEN { << >> }
    ELSE LET shorter == SeqsUpTo(S, n - 1)
         IN  shorter \cup { Append(q, x) : q \in shorter, x \in S }

\* instructions of the programs run on the single machine of Spec
ApiPool ==
    { Snd(Register("a")), Set("a", Value(1)), Add("a", Value(2)), Rcv("a"),
      Jgz(Register("a"), Register("p")), Jnz(Register("a"), Register("p")) }

\* set a 1, add a 2, rcv a
RecoverProgram == << Set("a", Value(1)), Add("a", Value(2)), Rcv("a") >>

ApiPrograms == SeqsUpTo(ApiPool, MaxLen) \cup { RecoverProgram }

\* values a caller passes to update_register and receive_sounds
InputVals == { -1, 0, 1, 2 }

\* register names a caller passes to update_register; "A" is not a register
InputRegs == { "a", "p", "A" }

\* batches a caller passes to receive_sounds
Batches == { << >>, <<1>>, <<2, 1>> }

\* the model's bounds on a machine (unbounded or 64-bit in the code)
InBounds(m) ==
    /\ \A c \in RegisterNames : m.registers[c] \in Vals
    /\ Len(m.sounds_sent) <= MaxQueue
    /\ Len(m.sounds_received) <= MaxQueue
    /\ m.total_sounds_sent <= MaxSent
    /\ m.mul_executions_count <= MaxMul

(***************************************************************************)
(* Spec: one machine (comp[0]) under any sequence of calls of its public   *)
(* operations.  comp[1] is built and never touched.                        *)
(***************************************************************************)
Init ==
    /\ instructions \in ApiPrograms
    /\ \E duet_mode \in BOOLEAN :
          comp = [i \in {0, 1} |-> new(duet_mode)]
    /\ executing = [i \in {0, 1} |-> FALSE]
    /\ drv = "api"
    /\ raw_input = << >>
    /\ knot = << >>

\* a call of execute, up to its first guard
ExecuteCall ==
    /\ drv = "api"
    /\ ~executing[0]
    /\ executing' = [executing EXCEPT ![0] = ~ExecuteReturnsAtOnce(comp[0])]
    /\ UNCHANGED <<raw_input, knot, instructions, comp, drv>>

\* one iteration of the loop of execute
ExecuteStep ==
    /\ drv = "api"
    /\ executing[0]
    /\ LET r == ExecuteIteration(comp[0], instructions)
       IN  /\ InBounds(r.m)
           /\ comp' = [comp EXCEPT ![0] = r.m]
           /\ executing' = [executing EXCEPT ![0] = (r.flow = "continue")]
           /\ drv' = IF r.flow = "panic" THEN "panic" ELSE drv
    /\ UNCHANGED <<raw_input, knot, instructions>>

ReceiveSounds(sounds) ==
    /\ drv = "api"
    /\ ~executing[0]
    /\ LET m == receive_sounds(comp[0], sounds)
       IN  /\ InBounds(m)
           /\ comp' = [comp EXCEPT ![0] = m]
    /\ UNCHANGED <<raw_input, knot, instructions, executing, drv>>

TakeSentSounds ==
    /\ drv = "api"
    /\ ~executing[0]
    /\ comp' = [comp EXCEPT ![0] = take_sent_sounds(comp[0]).m]
    /\ UNCHANGED <<raw_input, knot, instructions, executing, drv>>

UpdateRegister(register, value) ==
    /\ drv = "api"
    /\ ~executing[0]
    /\ comp' = [comp EXCEPT ![0] = update_register(comp[0], register, value).m]
    /\ UNCHANGED <<raw_input, knot, instructions, executing, drv>>

Next ==
    \/ ExecuteCall
    \/ ExecuteStep
    \/ \E sounds \in Batches : ReceiveSounds(sounds)
    \/ TakeSentSounds
    \/ \E register \in InputRegs, value \in InputVals :
          UpdateRegister(register, value)

Spec == Init /\ [][Next]_vars

(***************************************************************************)
(* DuetSpec: solve_part2.  Two duet-mode machines built from one program;  *)
(* drv is the place of the driver in its loop.  The driver is sequential   *)
(* and deterministic, so its next step is always taken (weak fairness).    *)
(***************************************************************************)
\* instructions of the programs run by the duet
DuetPool ==
    { Snd(Register("p")), Snd(Register("a")), Rcv("a"), Set("a", Value(1)),
      Jgz(Value(1), Value(-2)), Jgz(Register("p"), Value(2)),
      Jgz(Value(1), Value(2)) }

\* a program that sends back unchanged every value it receives
EchoProgram == << Rcv("a"), Snd(Register("a")), Jgz(Value(1), Value(-2)) >>

DuetPrograms == SeqsUpTo(DuetPool, MaxDuetLen) \cup { EchoProgram }

\* the state after the two calls of SoundComputer::new
DuetInit ==
    /\ instructions \in DuetPrograms
    /\ comp = [i \in {0, 1} |-> new(TRUE)]
    /\ executing = [i \in {0, 1} |-> FALSE]
    /\ drv = "setup"
    /\ raw_input = << >>
    /\ knot = << >>

\* the program ID written into both machines, as if they shared registers
DuetSetup_SetsBoth ==
    /\ drv = "setup"
    /\ comp' = [i \in {0, 1} |-> update_register(comp[i], "p", 1).m]
    /\ drv' = "check"
    /\ UNCHANGED <<raw_input, knot, instructions, executing>>

\* comp1.update_register(&'p', 1).unwrap()
DuetSetup ==
    /\ drv = "setup"
    /\ LET r == update_register(comp[1], "p", 1)
       IN  /\ comp' = [comp EXCEPT ![1] = r.m]
           /\ drv' = IF r.ok THEN "check" ELSE "panic"
    /\ UNCHANGED <<raw_input, knot, instructions, executing>>

\* the halting conditions with the first test satisfied by either machine
DuetBreaks_EitherHalted(c0, c1) ==
    \/ is_halted(c0) \/ is_halted(c1)
    \/ is_halted(c0) /\ is_awaiting_input(c1)
    \/ is_awaiting_input(c0) /\ is_awaiting_input(c1)

\* the halting conditions without the test for a deadlock
DuetBreaks_NoDeadlockCheck(c0, c1) ==
    \/ is_halted(c0) /\ is_halted(c1)
    \/ is_halted(c0) /\ is_awaiting_input(c1)

\* the three halting conditions at the top of the loop
DuetBreaks(c0, c1) ==
    \/ is_halted(c0) /\ is_halted(c1)
    \/ is_halted(c0) /\ is_awaiting_input(c1)
    \/ is_awaiting_input(c0) /\ is_awaiting_input(c1)

DuetCheck ==
    /\ drv = "check"
    /\ drv' = IF DuetBreaks(comp[0], comp[1]) THEN "done" ELSE "exec0"
    /\ UNCHANGED <<raw_input, knot, instructions, comp, executing>>

\* the driver's place while it calls comp<i>.execute(), and after it
ExecPlace(i) == IF i = 0 THEN "exec0" ELSE "exec1"

AfterExec(i) == IF i = 0 THEN "exec1" ELSE "xfer0"

\* comp<i>.execute(), up to its first guard
DuetExecuteCall(i) ==
    /\ drv = ExecPlace(i)
    /\ ~executing[i]
    /\ IF ExecuteReturnsAtOnce(comp[i])
       THEN drv' = AfterExec(i) /\ UNCHANGED executing
       ELSE executing' = [executing EXCEPT ![i] = TRUE] /\ UNCHANGED drv
    /\ UNCHANGED <<raw_input, knot, instructions, comp>>

\* one iteration of the loop of comp<i>.execute()
DuetExecuteStep(i) ==
    /\ drv = ExecPlace(i)
    /\ executing[i]
    /\ LET r == ExecuteIteration(comp[i], instructions)
       IN  /\ InBounds(r.m)
           /\ comp' = [comp EXCEPT ![i] = r.m]
           /\ executing' = [executing EXCEPT ![i] = (r.flow = "continue")]
           /\ drv' = CASE r.flow = "continue" -> drv
                       [] r.flow = "panic" -> "panic"
                       [] OTHER -> AfterExec(i)
    /\ UNCHANGED <<raw_input, knot, instructions>>

\* the driver's transfer with the test made on the sending machine
Transfer_ChecksSender(c, to, from) ==
    IF is_awaiting_input(c[from])
    THEN LET t == take_sent_sounds(c[from])
         IN  [c EXCEPT ![from] = t.m, ![to] = receive_sounds(c[to], t.taken)]
    ELSE c

\* the machines after the driver has moved the sounds sent by from to to,
\* which it does when to is awaiting input
Transfer(c, to, from) ==
    IF is_awaiting_input(c[to])
    THEN LET t == take_sent_sounds(c[from])
         IN  [c EXCEPT ![from] = t.m, ![to] = receive_sounds(c[to], t.taken)]
    ELSE c

\* sounds sent by program 1 go to program 0
DuetTransfer0 ==
    /\ drv = "xfer0"
    /\ LET c == Transfer(comp, 0, 1)
       IN  InBounds(c[0]) /\ comp' = c
    /\ drv' = "xfer1"
    /\ UNCHANGED <<raw_input, knot, instructions, executing>>

\* sounds sent by program 0 go to program 1
DuetTransfer1 ==
    /\ drv = "xfer1"
    /\ LET c == Transfer(comp, 1, 0)
       IN  InBounds(c[1]) /\ comp' = c
    /\ drv' = "check"
    /\ UNCHANGED <<raw_input, knot, instructions, executing>>

DuetNext ==
    \/ DuetSetup
    \/ DuetCheck
    \/ \E i \in {0, 1} : DuetExecuteCall(i)
    \/ \E i \in {0, 1} : DuetExecuteStep(i)
    \/ DuetTransfer0
    \/ DuetTransfer1

DuetSpec == DuetInit /\ [][DuetNext]_vars /\ WF_vars(DuetNext)

(***************************************************************************)
(* Part1Spec: solve_part1.  One standalone machine is built, execute is    *)
(* called on it once, and the last sent sound is unwrapped.                *)
(***************************************************************************)
\* instructions of the programs run by solve_part1
Part1Pool ==
    { Set("a", Value(1)), Add("a", Value(2)), Sub("a", Value(3)),
      Mul("a", Register("a")), Mod("a", Value(5)), Mod("a", Register("a")),
      Set("b", Value(2)), Add("a", Register("b")),
      Snd(Register("a")), Rcv("a"),
      Jgz(Register("a"), Value(-1)), Jnz(Register("a"), Value(-2)) }

\* set a 1, add a 2, mul a a, mod a 5, snd a, jgz a -1, set a 1
ScenarioProgram ==
    << Set("a", Value(1)), Add("a", Value(2)), Mul("a", Register("a")),
       Mod("a", Value(5)), Snd(Register("a")),
       Jgz(Register("a"), Value(-1)), Set("a", Value(1)) >>

Part1Programs == SeqsUpTo(Part1Pool, MaxRunLen) \cup { ScenarioProgram }

RunVals == (0 - MaxRunVal) .. MaxRunVal

\* the bounds of the model on the machine of solve_part1
RunInBounds(m) ==
    /\ \A c \in RegisterNames : m.registers[c] \in RunVals
    /\ Len(m.sounds_sent) <= MaxQueue
    /\ Len(m.sounds_received) <= MaxQueue
    /\ m.total_sounds_sent <= MaxSent
    /\ m.mul_executions_count <= MaxMul

\* the state after SoundComputer::new(instructions, false)
Part1Init ==
    /\ instructions \in Part1Programs
    /\ comp = [i \in {0, 1} |-> new(FALSE)]
    /\ executing = [i \in {0, 1} |-> FALSE]
    /\ drv = "p1_exec"
    /\ raw_input = << >>
    /\ knot = << >>

\* sound_computer.execute(), up to its first guard
Part1ExecuteCall ==
    /\ drv = "p1_exec"
    /\ ~executing[0]
    /\ IF ExecuteReturnsAtOnce(comp[0])
       THEN drv' = "p1_last" /\ UNCHANGED executing
       ELSE executing' = [executing EXCEPT ![0] = TRUE] /\ UNCHANGED drv
    /\ UNCHANGED <<raw_input, knot, instructions, comp>>

\* one iteration of the loop of sound_computer.execute()
Part1ExecuteStep ==
    /\ drv = "p1_exec"
    /\ executing[0]
    /\ LET r == ExecuteIteration(comp[0], instructions)
       IN  /\ RunInBounds(r.m)
           /\ comp' = [comp EXCEPT ![0] = r.m]
           /\ executing' = [executing EXCEPT ![0] = (r.flow = "continue")]
           /\ drv' = CASE r.flow = "continue" -> drv
                       [] r.flow = "panic" -> "panic"
                       [] OTHER -> "p1_last"
    /\ UNCHANGED <<raw_input, knot, instructions>>

\* sound_computer.get_last_sent_sound().unwrap(): the value returned is the
\* last sent sound of the machine at "p1_done"
Part1Result ==
    /\ drv = "p1_last"
    /\ drv' = IF get_last_sent_sound(comp[0]) = None THEN "panic" ELSE "p1_done"
    /\ UNCHANGED <<raw_input, knot, instructions, comp, executing>>

Part1Next ==
    \/ Part1ExecuteCall
    \/ Part1ExecuteStep
    \/ Part1Result

Part1Spec == Part1Init /\ [][Part1Next]_vars /\ WF_vars(Part1Next)

(***************************************************************************)
(* LoadSpec: main of day18 up to the end of solve_part1.  The program text *)
(* is parsed line by line, then the machine of solve_part1 is built and    *)
(* run.  A line is the sequence of its characters.                         *)
(***************************************************************************)
\* [a-z]
LowerLetters == RegisterNames

\* the ASCII digits
Digits == { "0", "1", "2", "3", "4", "5", "6", "7", "8", "9" }

DigitValue(c) ==
    CASE c = "0" -> 0 [] c = "1" -> 1 [] c = "2" -> 2 [] c = "3" -> 3
      [] c = "4" -> 4 [] c = "5" -> 5 [] c = "6" -> 6 [] c = "7" -> 7
      [] c = "8" -> 8 [] OTHER -> 9

AllDigits(s) == Len(s) >= 1 /\ \A k \in 1 .. Len(s) : s[k] \in Digits

\* the value of a string of digits
RECURSIVE NumeralValue(_)
NumeralValue(s) ==
    IF s = << >> THEN 0
    ELSE NumeralValue(SubSeq(s, 1, Len(s) - 1)) * 10 + DigitValue(s[Len(s)])

\* str::parse::<i64>: an optional sign and at least one digit (numerals
\* here are short of the i64 range by far); None is the Err
ParseI64(s) ==
    IF s # << >> /\ s[1] \in {"-", "+"}
    THEN IF AllDigits(Tail(s))
         THEN Some((IF s[1] = "-" THEN -1 ELSE 1) * NumeralValue(Tail(s)))
         ELSE None
    ELSE IF AllDigits(s) THEN Some(NumeralValue(s)) ELSE None

\* InstructionArgument::from_str: ok is FALSE for Err(InstructionParseError)
ArgumentFromStr(s) ==
    IF ParseI64(s) # None
    THEN [ok |-> TRUE, arg |-> Value(ParseI64(s)[1])]
    ELSE IF Len(s) = 1
         THEN [ok |-> TRUE, arg |-> Register(s[1])]
         ELSE [ok |-> FALSE, arg |-> NoArg]

\* the fields of a line between its single spaces: no regex group matches a
\* space, so a regex matches a line only field by field
RECURSIVE Fields(_)
Fields(s) ==
    IF \A k \in 1 .. Len(s) : s[k] # " "
    THEN << s >>
    ELSE LET k == CHOOSE i \in 1 .. Len(s) :
                     s[i] = " " /\ \A j \in 1 .. i - 1 : s[j] # " "
         IN  << SubSeq(s, 1, k - 1) >> \o Fields(SubSeq(s, k + 1, Len(s)))

\* the group ([a-z]) written as (.): any single character is a register
MatchesRegister_AnyCharacter(s) == Len(s) = 1

\* the group ([a-z])
MatchesRegister(s) == Len(s) = 1 /\ s[1] \in LowerLetters

\* the group ([a-z]|-?\d+)
MatchesOperand(s) ==
    \/ MatchesRegister(s)
    \/ AllDigits(s)
    \/ s # << >> /\ s[1] = "-" /\ AllDigits(Tail(s))

\* the opcode words of the nine regexes
Word(op) ==
    CASE op = "Snd" -> << "s", "n", "d" >> [] op = "Set" -> << "s", "e", "t" >>
      [] op = "Add" -> << "a", "d", "d" >> [] op = "Mul" -> << "m", "u", "l" >>
      [] op = "Mod" -> << "m", "o", "d" >> [] op = "Rcv" -> << "r", "c", "v" >>
      [] op = "Jgz" -> << "j", "g", "z" >> [] op = "Sub" -> << "s", "u", "b" >>
      [] OTHER -> << "j", "n", "z" >>

\* ^word ([a-z]|-?\d+)$
MatchesX(s, op) ==
    LET f == Fields(s)
    IN  Len(f) = 2 /\ f[1] = Word(op) /\ MatchesOperand(f[2])

\* ^word ([a-z])$
MatchesR(s, op) ==
    LET f == Fields(s)
    IN  Len(f) = 2 /\ f[1] = Word(op) /\ MatchesRegister(f[2])

\* ^word ([a-z]) ([a-z]|-?\d+)$
MatchesRX(s, op) ==
    LET f == Fields(s)
    IN  /\ Len(f) = 3 /\ f[1] = Word(op)
        /\ MatchesRegister(f[2]) /\ MatchesOperand(f[3])

\* ^word ([a-z]|-?\d+) ([a-z]|-?\d+)$
MatchesXY(s, op) ==
    LET f == Fields(s)
    IN  /\ Len(f) = 3 /\ f[1] = Word(op)
        /\ MatchesOperand(f[2]) /\ MatchesOperand(f[3])

\* Instruction::from_str.  res is "ok" with the instruction, "err" for
\* Err(InstructionParseError), "panic" for an unwrap of an argument that
\* failed to parse
from_str(s) ==
    LET f == Fields(s)
        a2 == ArgumentFromStr(f[2])
        a3 == ArgumentFromStr(f[3])
        Ok(ins) == [res |-> "ok", ins |-> ins]
        Panic == [res |-> "panic", ins |-> Rcv("")]
    IN  IF MatchesX(s, "Snd")
        THEN IF a2.ok THEN Ok(Snd(a2.arg)) ELSE Panic
        ELSE IF MatchesRX(s, "Set")
        THEN IF a3.ok THEN Ok(Set(f[2][1], a3.arg)) ELSE Panic
        ELSE IF MatchesRX(s, "Add")
        THEN IF a3.ok THEN Ok(Add(f[2][1], a3.arg)) ELSE Panic
        ELSE IF MatchesRX(s, "Mul")
        THEN IF a3.ok THEN Ok(Mul(f[2][1], a3.arg)) ELSE Panic
        ELSE IF MatchesRX(s, "Mod")
        THEN IF a3.ok THEN Ok(Mod(f[2][1], a3.arg)) ELSE Panic
        ELSE IF MatchesR(s, "Rcv")
        THEN Ok(Rcv(f[2][1]))
        ELSE IF MatchesXY(s, "Jgz")
        THEN IF a2.ok /\ a3.ok THEN Ok(Jgz(a2.arg, a3.arg)) ELSE Panic
        ELSE IF MatchesRX(s, "Sub")
        THEN IF a3.ok THEN Ok(Sub(f[2][1], a3.arg)) ELSE Panic
        ELSE IF MatchesXY(s, "Jnz")
        THEN IF a2.ok /\ a3.ok THEN Ok(Jnz(a2.arg, a3.arg)) ELSE Panic
        ELSE [res |-> "err", ins |-> Rcv("")]

\* words a line of the text starts with: the nine opcodes and three others
TextWords ==
    { Word(op) : op \in {"Snd", "Set", "Add", "Mul", "Mod", "Rcv", "Jgz",
                         "Sub", "Jnz"} }
       \cup { << "n", "o", "p" >>, << "S", "N", "D" >>, << "s", "n" >> }

\* operand fields of a line of the text
TextOperands ==
    { << "a" >>, << "p" >>, << "1" >>, << "-", "2" >>, << "1", "2" >>,
      << "A" >>, << "-" >>, << "1", "a" >>, << >> }

\* s followed by up to n operand fields, each after one space
RECURSIVE WithOperands(_, _)
WithOperands(s, n) ==
    IF n = 0 THEN { s }
    ELSE { s } \cup UNION { WithOperands(s \o << " " >> \o x, n - 1) :
                              x \in TextOperands }

TextLines == UNION { WithOperands(w, MaxOperands) : w \in TextWords }

\* lines of the texts of more than one line; the second is a blank line
ShortLines ==
    { Word("Snd") \o << " ", "a" >>,
      << >>,
      Word("Set") \o << " ", "a", " ", "1" >>,
      Word("Rcv") \o << " ", "a", " " >>,
      Word("Jgz") \o << " ", "a", " ", "-", "2" >>,
      Word("Rcv") \o << " ", "1" >> }

\* str::trim and str::lines: raw_input holds the lines of the trimmed text,
\* so its first line does not start and its last line does not end with a
\* space, and neither is blank
Trimmed(text) ==
    text # << >>
    => /\ text[1] # << >> /\ text[1][1] # " "
       /\ text[Len(text)] # << >>
       /\ text[Len(text)][Len(text[Len(text)])] # " "

Texts ==
    { text \in { << l >> : l \in TextLines }
                  \cup SeqsUpTo(ShortLines, MaxLines) : Trimmed(text) }

\* no SoundComputer has been built yet
NotBuilt == << >>

\* main of day18 before process_input_file
LoadInit ==
    /\ raw_input = << >>
    /\ instructions = << >>
    /\ comp = NotBuilt
    /\ executing = [i \in {0, 1} |-> FALSE]
    /\ drv = "read"
    /\ knot = << >>

\* process_input_file: fs::read_to_string gives the text of the input file
LoadRead ==
    /\ drv = "read"
    /\ raw_input' \in Texts
    /\ drv' = "load"
    /\ UNCHANGED <<knot, instructions, comp, executing>>

\* parse_raw_input: the next line goes through Instruction::from_str and
\* unwrap; instructions holds the lines collected so far
LoadLine ==
    /\ drv = "load"
    /\ Len(instructions) < Len(raw_input)
    /\ LET r == from_str(raw_input[Len(instructions) + 1])
       IN  IF r.res = "ok"
           THEN instructions' = Append(instructions, r.ins) /\ UNCHANGED drv
           ELSE drv' = "panic" /\ UNCHANGED instructions
    /\ UNCHANGED <<comp, executing, raw_input, knot>>

\* the text is parsed: solve_part1 builds its machine
LoadBuild ==
    /\ drv = "load"
    /\ Len(instructions) = Len(raw_input)
    /\ comp' = [i \in {0, 1} |-> new(FALSE)]
    /\ drv' = "p1_exec"
    /\ UNCHANGED <<raw_input, knot, instructions, executing>>

LoadNext ==
    \/ LoadRead
    \/ LoadLine
    \/ LoadBuild
    \/ Part1ExecuteCall
    \/ Part1ExecuteStep
    \/ Part1Result

LoadSpec == LoadInit /\ [][LoadNext]_vars /\ WF_vars(LoadNext)

(***************************************************************************)
(* KnotSpec: calculate_sparse_hash of utils/knot_hash.rs.  One step per    *)
(* iteration of the loop over the lengths.                                 *)
(***************************************************************************)
\* segment: the len elements of strand from cursor on, wrapping around
Segment(strand, cursor, len) ==
    [delta \in 1 .. len |->
        strand[((cursor + (delta - 1)) % Len(strand)) + 1]]

\* segment.reverse()
Reversed(segment) ==
    [j \in 1 .. Len(segment) |-> segment[Len(segment) + 1 - j]]

\* the loop that writes the segment back from element j on (j from 0)
RECURSIVE WriteBack(_, _, _, _)
WriteBack(strand, segment, cursor, j) ==
    IF j >= Len(segment) THEN strand
    ELSE WriteBack([strand EXCEPT ![((cursor + j) % Len(strand)) + 1] =
                       segment[j + 1]],
                   segment, cursor, j + 1)

\* the strand after the reversal of the segment of length len at cursor
ReverseSegment(strand, cursor, len) ==
    WriteBack(strand, Reversed(Segment(strand, cursor, len)), cursor, 0)

\* the cursor update without its wrap-around
NextCursor_NoWrap(strand, cursor, len, skip) == cursor + len + skip

\* cursor = (cursor + len + skip) % strand.len()
NextCursor(strand, cursor, len, skip) == (cursor + len + skip) % Len(strand)

\* 0, 1, ..., n - 1, as the callers build their strand
Iota(n) == [k \in 1 .. n |-> k - 1]

\* a strand of n elements with repeated values: 0, 0, 1, 1, ...
Doubled(n) == [k \in 1 .. n |-> (k - 1) \div 2]

Strands == UNION { { Iota(n), Doubled(n) } : n \in 1 .. MaxStrand }

LengthLists == SeqsUpTo(0 .. MaxLength, MaxLengths)

\* the call calculate_sparse_hash(strand, lengths, cursor, skip): the
\* arguments, with the locals strand, cursor and skip shadowing them
KnotInit ==
    /\ \E strand \in Strands, lengths \in LengthLists,
          cursor \in 0 .. MaxCursor, skip \in 0 .. MaxSkip :
          knot = [ strand_arg |-> strand, lengths |-> lengths,
                   cursor_arg |-> cursor, skip_arg |-> skip,
                   strand |-> strand, cursor |-> cursor, skip |-> skip,
                   done |-> 0, returned |-> FALSE ]
    /\ instructions = << >>
    /\ comp = NotBuilt
    /\ executing = [i \in {0, 1} |-> FALSE]
    /\ drv = "knot"
    /\ raw_input = << >>

\* one iteration of for &len in lengths
KnotIteration ==
    /\ drv = "knot"
    /\ knot.done < Len(knot.lengths)
    /\ LET len == knot.lengths[knot.done + 1]
       IN  knot' = [knot EXCEPT
                      !.strand = ReverseSegment(knot.strand, knot.cursor, len),
                      !.cursor = NextCursor(knot.strand, knot.cursor, len,
                                            knot.skip),
                      !.skip = @ + 1,
                      !.done = @ + 1]
    /\ UNCHANGED <<raw_input, instructions, comp, executing, drv>>

\* (strand, cursor, skip) is returned
KnotReturn ==
    /\ drv = "knot"
    /\ knot.done = Len(knot.lengths)
    /\ ~knot.returned
    /\ knot' = [knot EXCEPT !.returned = TRUE]
    /\ UNCHANGED <<raw_input, instructions, comp, executing, drv>>

KnotNext ==
    \/ KnotIteration
    \/ KnotReturn

KnotSpec == KnotInit /\ [][KnotNext]_vars /\ WF_vars(KnotNext)

(***************************************************************************)
(* Claims.                                                                 *)
(***************************************************************************)
\* machine h is halted, machine w is awaiting input, and there is nothing
\* for w to receive: its inbound queue and h's outbound queue are empty
HaltedAndStarved(h, w) ==
    /\ is_halted(comp[h])
    /\ is_awaiting_input(comp[w])
    /\ comp[w].sounds_received = << >>
    /\ comp[h].sounds_sent = << >>

\* C1: the duet driver loop terminates whenever one machine is halted and
\* the other is awaiting input with nothing to receive, whichever of the two
\* machines is the halted one.
C1_LoopEndsWhicheverHalted ==
    /\ HaltedAndStarved(0, 1) ~> (drv = "done")
    /\ HaltedAndStarved(1, 0) ~> (drv = "done")

\* the half of C1 the driver implements: program 0 halted, program 1 starved
C1_LoopEndsWhenProgram0Halted == HaltedAndStarved(0, 1) ~> (drv = "done")

\* program 0 halted and program 1 starved is reached, and the loop has ended
C1_Program0HaltedSeen == drv = "done" /\ HaltedAndStarved(0, 1)

\* machine i is inside execute with its program counter on an instruction
\* of variant op
AtOp(i, op) ==
    /\ executing[i]
    /\ comp[i].pc < Len(instructions)
    /\ instructions[comp[i].pc + 1].op = op

\* the instruction machine i's program counter is on
Cur(i) == instructions[comp[i].pc + 1]

\* the steps of machine i that C2 is about
C2_Step(i) ==
    LET m == comp[i]
        n == comp'[i]
    IN  \* Rcv on an empty inbound queue: awaiting, returned, pc on the Rcv
        /\ (AtOp(i, "Rcv") /\ m.duet_mode /\ m.sounds_received = << >>)
              => (n = [m EXCEPT !.awaiting_input = TRUE] /\ ~executing'[i])
        \* while awaiting, the pc stays on that Rcv and execute does not run
        /\ (m.duet_mode /\ m.awaiting_input)
              => /\ m.pc < Len(instructions)
                 /\ instructions[m.pc + 1].op = "Rcv"
                 /\ n.pc = m.pc
                 /\ ~executing'[i]
        \* a delivery of at least one value ends the wait
        /\ (m.duet_mode /\ m.awaiting_input /\ n.sounds_received # << >>)
              => ~n.awaiting_input
        \* the next execute enters its loop on the same Rcv
        /\ (~executing[i] /\ executing'[i]) => n = m
        \* Rcv on a non-empty inbound queue takes the oldest value
        /\ (AtOp(i, "Rcv") /\ m.duet_mode /\ m.sounds_received # << >>)
              => n = [m EXCEPT
                        !.registers[Cur(i).reg] = Head(m.sounds_received),
                        !.sounds_received = Tail(m.sounds_received),
                        !.pc = m.pc + 1]

\* C2: a duet-mode machine that reaches a Rcv with an empty inbound queue
\* sets awaiting_input, returns from execute and leaves its program counter
\* on that Rcv; after receive_sounds has delivered at least one value the
\* next execute retries the same Rcv, writes the oldest queued value into
\* the target register, removes it from the inbound queue and advances the
\* program counter by 1.
C2_RcvAwaitsThenRetries == [][C2_Step(0) /\ C2_Step(1)]_vars

\* program 0 of the duet snd p, snd a, rcv a has waited on its rcv, was
\* delivered 1 and 0 by program 1, and has taken the older value, 1
C2_RetriedRcvSeen ==
    /\ instructions = << Snd(Register("p")), Snd(Register("a")), Rcv("a") >>
    /\ drv = "exec0"
    /\ comp[0].pc = 3
    /\ comp[0].registers["a"] = 1
    /\ comp[0].sounds_received = << 0 >>
    /\ ~comp[0].awaiting_input

\* C3: a standalone machine that reaches a Rcv whose target register is
\* nonzero stops executing (execute returns) with halted false,
\* awaiting_input false, the program counter still on that Rcv and the last
\* sent value unchanged; so too in the program set a 1, add a 2, rcv a.
C3_StandaloneRcvRecovers ==
    [][ (AtOp(0, "Rcv") /\ ~comp[0].duet_mode
            /\ comp[0].registers[Cur(0).reg] # 0)
        => /\ ~executing'[0]
           /\ ~is_halted(comp'[0])
           /\ ~is_awaiting_input(comp'[0])
           /\ comp'[0].pc = comp[0].pc
           /\ get_last_sent_sound(comp'[0]) = get_last_sent_sound(comp[0])
           /\ comp'[0] = comp[0] ]_vars

\* execute has returned from set a 1, add a 2, rcv a on a standalone
\* machine: a is 3, the program counter is on the rcv, no flag is set
C3_RecoverProgramStopped ==
    /\ instructions = RecoverProgram
    /\ ~comp[0].duet_mode
    /\ ~executing[0]
    /\ comp[0].pc = 2
    /\ comp[0].registers["a"] = 3
    /\ ~is_halted(comp[0])
    /\ ~is_awaiting_input(comp[0])

\* C4: in standalone mode execution stops at a Rcv if and only if its target
\* register is nonzero, whatever the inbound queue holds, and a standalone
\* machine is never marked awaiting_input.
C4_StandaloneRcvStopsIffNonzero ==
    [][ ~comp[0].duet_mode
        => /\ ~is_awaiting_input(comp'[0])
           /\ AtOp(0, "Rcv")
                 => (~executing'[0] <=> comp[0].registers[Cur(0).reg] # 0)
      ]_vars

\* C5: awaiting_input and halted are never both true.
C5_NeverAwaitingAndHalted ==
    ~(is_awaiting_input(comp[0]) /\ is_halted(comp[0]))

\* a halted machine whose program counter is on a Rcv it could wait on: it
\* was halted by a jump below index 0, then given a register a of 0
C5_HaltedBeforeRcvSeen ==
    /\ is_halted(comp[0])
    /\ ~executing[0]
    /\ comp[0].pc = 0
    /\ Len(instructions) = 2
    /\ instructions[1].op = "Jgz"
    /\ instructions[2].op = "Rcv"
    /\ comp[0].registers["a"] = 0
    /\ comp[0].sounds_received = << >>

\* C6: once halted is set it is never cleared.
C6_HaltedIsNeverCleared == [][is_halted(comp[0]) => is_halted(comp'[0])]_vars

\* a halted machine on which receive_sounds, take_sent_sounds and
\* update_register have since acted: it sent a and ran off the end, and has
\* since been given sounds, had its sent sound taken and its register a set
C6_HaltedThenCalledSeen ==
    /\ instructions = << Snd(Register("a")) >>
    /\ is_halted(comp[0])
    /\ comp[0].pc = 1
    /\ comp[0].total_sounds_sent = 1
    /\ comp[0].sounds_sent = << >>
    /\ comp[0].sounds_received # << >>
    /\ get_last_sent_sound(comp[0]) # Some(comp[0].registers["a"])

\* C7 as claimed: at construction and after every public operation, for
\* every program including the empty one, the program counter is a valid
\* index into the program or the machine is halted.
C7_PcValidOrHalted ==
    ~executing[0] => (comp[0].pc < Len(instructions) \/ is_halted(comp[0]))

\* C7 as amended: the same for every program that is not empty (a machine
\* built from the empty program has program counter 0 and is not halted
\* until execute is called on it).
C7_PcValidOrHaltedNonEmpty ==
    (~executing[0] /\ instructions # << >>)
        => (comp[0].pc < Len(instructions) \/ is_halted(comp[0]))

\* execute has run a program of two instructions off its end
C7_RanOffTheEndSeen ==
    /\ ~executing[0]
    /\ Len(instructions) = 2
    /\ comp[0].pc = 2
    /\ is_halted(comp[0])

\* C8: whenever the program counter moves outside the program bounds during
\* execute, by advancing past the last instruction or by a taken forward
\* jump past the end, execute marks the machine halted before it returns.
C8_OutOfBoundsHalts ==
    [][ /\ (executing[0] /\ comp[0].pc >= Len(instructions))
           => (is_halted(comp'[0]) /\ ~executing'[0])
        /\ (executing[0] /\ ~executing'[0]
               /\ comp'[0].pc >= Len(instructions))
           => is_halted(comp'[0]) ]_vars

\* a taken forward jump has moved the program counter past the end, beyond
\* the index just after the last instruction, and execute has returned
C8_JumpedPastEndSeen ==
    /\ ~executing[0]
    /\ comp[0].pc > Len(instructions)
    /\ is_halted(comp[0])

\* both machines are awaiting input, neither is halted: the deadlock
\* condition is the one that ends the loop
Deadlocked ==
    /\ drv = "done"
    /\ is_awaiting_input(comp[0]) /\ is_awaiting_input(comp[1])
    /\ ~is_halted(comp[0]) /\ ~is_halted(comp[1])

\* C9: two duet-mode machines, with p = 0 and p = 1, that run a program
\* sending back unchanged every value it receives make the driver loop end
\* through the deadlock condition.
C9_EchoDuetEndsInDeadlock == (instructions = EchoProgram) ~> Deadlocked

\* the duet of the echo program has ended, both machines waiting on the rcv
C9_EchoDeadlockSeen ==
    /\ instructions = EchoProgram
    /\ Deadlocked
    /\ comp[0].pc = 0 /\ comp[1].pc = 0
    /\ comp[1].registers["p"] = 1

\* the operands of the Jgz machine 0 is on
JgzCheckValue == decode_instruction_argument(comp[0], Cur(0).arg1).val

JgzOffset == decode_instruction_argument(comp[0], Cur(0).arg2).val

\* a Jgz step changes neither the registers nor the queues
JgzFrame ==
    /\ comp'[0].registers = comp[0].registers
    /\ comp'[0].sounds_sent = comp[0].sounds_sent
    /\ comp'[0].sounds_received = comp[0].sounds_received

\* C10 as claimed: executing Jgz at index i, a strictly positive first
\* operand makes the program counter exactly i + k, k the second operand; a
\* zero or negative first operand makes it i + 1; registers and queues are
\* unchanged.
C10_JgzMovesPcByOffset ==
    [][ AtOp(0, "Jgz")
        => /\ JgzCheckValue > 0 => comp'[0].pc = comp[0].pc + JgzOffset
           /\ JgzCheckValue <= 0 => comp'[0].pc = comp[0].pc + 1
           /\ JgzFrame ]_vars

\* C10 as amended: a strictly positive first operand makes the program
\* counter exactly i + k when i + k >= 0, and when i + k < 0 leaves it at i
\* and halts the machine; a zero or negative first operand makes it i + 1;
\* registers and queues are unchanged.
C10_JgzMovesPcByOffsetOrHalts ==
    [][ AtOp(0, "Jgz")
        => /\ (JgzCheckValue > 0 /\ comp[0].pc + JgzOffset >= 0)
                 => (comp'[0].pc = comp[0].pc + JgzOffset
                        /\ ~is_halted(comp'[0]))
           /\ (JgzCheckValue > 0 /\ comp[0].pc + JgzOffset < 0)
                 => (comp'[0].pc = comp[0].pc /\ is_halted(comp'[0])
                        /\ ~executing'[0])
           /\ JgzCheckValue <= 0
                 => (comp'[0].pc = comp[0].pc + 1 /\ ~is_halted(comp'[0]))
           /\ JgzFrame ]_vars

\* the jgz a p at index 1, with a > 0 and p = -1, has moved the program
\* counter to index 0: the snd before it has run once, and only a jump
\* brings the program counter back
C10_JumpedBackSeen ==
    /\ instructions = << Snd(Register("a")), Jgz(Register("a"), Register("p")) >>
    /\ executing[0]
    /\ comp[0].pc = 0
    /\ comp[0].total_sounds_sent = 1
    /\ comp[0].registers["a"] > 0
    /\ comp[0].registers["p"] = -1

\* machine 0 is on a jump that is taken: Jgz with a first operand above
\* zero, or Jnz with a first operand other than zero
JumpTaken ==
    \/ AtOp(0, "Jgz") /\ JgzCheckValue > 0
    \/ AtOp(0, "Jnz") /\ JgzCheckValue # 0

\* C11: a taken jump with a negative offset halts the machine exactly when
\* the magnitude of the offset is strictly greater than the current program
\* counter; when the magnitude equals the program counter the jump lands on
\* index 0 and the machine is not halted.
C11_NegativeJumpHaltsIffPastStart ==
    [][ (JumpTaken /\ JgzOffset < 0)
        => /\ is_halted(comp'[0]) <=> (0 - JgzOffset > comp[0].pc)
           /\ (0 - JgzOffset = comp[0].pc)
                 => (comp'[0].pc = 0 /\ ~is_halted(comp'[0]) /\ executing'[0])
           /\ (0 - JgzOffset < comp[0].pc)
                 => comp'[0].pc = comp[0].pc + JgzOffset ]_vars

\* the jnz a -2 at index 2 was taken and landed on index 0: the machine is
\* back on the first instruction with a already set, and is not halted
C11_LandedOnIndexZeroSeen ==
    /\ instructions = << Set("a", Value(1)), Add("a", Value(2)),
                         Jnz(Register("a"), Value(-2)) >>
    /\ executing[0]
    /\ comp[0].pc = 0
    /\ comp[0].registers["a"] = 3
    /\ ~is_halted(comp[0])

\* the step is a call of receive_sounds(sounds) on machine 0
ReceiveStep(sounds) ==
    /\ drv = "api"
    /\ ~executing[0]
    /\ ~executing'[0]
    /\ comp'[0] = receive_sounds(comp[0], sounds)

\* C12: receive_sounds(values) appends the batch to the end of the inbound
\* queue in order, and clears awaiting_input if and only if the inbound queue
\* is non-empty afterwards, so an empty batch delivered to an awaiting
\* machine leaves it awaiting; registers, program counter, outbound queue,
\* halted flag and sent counters are unchanged.
C12_ReceiveAppendsAndWakes ==
    [][ \A sounds \in Batches :
          ReceiveStep(sounds)
          => LET m == comp[0]
                 n == comp'[0]
             IN  /\ n.sounds_received = m.sounds_received \o sounds
                 /\ is_awaiting_input(n)
                       <=> (is_awaiting_input(m) /\ n.sounds_received = << >>)
                 /\ n.registers = m.registers
                 /\ n.pc = m.pc
                 /\ n.sounds_sent = m.sounds_sent
                 /\ n.halted = m.halted
                 /\ n.total_sounds_sent = m.total_sounds_sent
                 /\ n.last_sound_sent = m.last_sound_sent ]_vars

\* a duet machine that stopped on the rcv at index 1, which it can only do
\* awaiting input, now holds the batch 2, 1 in that order and awaits no more
C12_WokenByBatchSeen ==
    /\ instructions = << Snd(Register("a")), Rcv("a") >>
    /\ comp[0].duet_mode
    /\ ~executing[0]
    /\ comp[0].pc = 1
    /\ ~is_halted(comp[0])
    /\ ~is_awaiting_input(comp[0])
    /\ comp[0].sounds_received = << 2, 1 >>
    /\ comp[0].total_sounds_sent = 1

\* C13: take_sent_sounds returns every value in the outbound queue, in the
\* order the values were sent, and leaves the outbound queue empty, so a
\* repeated call returns an empty collection; the total-sent counter, the
\* last sent value, registers and program counter are unchanged.  The
\* returned values are seen where the driver delivers them.
C13_TakeReturnsAllAndEmpties ==
    [][ \A to \in {0, 1} :
          LET from == 1 - to
          IN  (drv = (IF to = 0 THEN "xfer0" ELSE "xfer1")
                 /\ is_awaiting_input(comp[to]))
              => /\ comp'[to].sounds_received
                       = comp[to].sounds_received \o comp[from].sounds_sent
                 /\ comp'[from] = [comp[from] EXCEPT !.sounds_sent = << >>]
                 /\ take_sent_sounds(comp'[from]).taken = << >> ]_vars

\* program 1 sent p = 1 and then a = 0; both values have been taken from it
\* and handed to program 0 in that order, and its counter still says 2
C13_TakenInSendOrderSeen ==
    /\ instructions = << Snd(Register("p")), Snd(Register("a")), Rcv("a") >>
    /\ drv = "xfer1"
    /\ comp[0].sounds_received = << 1, 0 >>
    /\ comp[1].sounds_sent = << >>
    /\ comp[1].total_sounds_sent = 2
    /\ comp[1].last_sound_sent = Some(0)

\* C14: each Snd appends its resolved operand to the end of the outbound
\* queue, makes it the last sent value and raises the total-sent counter by
\* exactly 1; the counter starts at 0 and no other step of any operation
\* changes it, take_sent_sounds included, so it never decreases and is the
\* number of Snd instructions executed since construction.
C14_TotalSentCountsSnd ==
    /\ comp[0].total_sounds_sent = 0
    /\ [][ LET m == comp[0]
               n == comp'[0]
           IN  /\ AtOp(0, "Snd")
                     => LET value ==
                                decode_instruction_argument(m, Cur(0).arg).val
                        IN  /\ n.sounds_sent = Append(m.sounds_sent, value)
                            /\ n.last_sound_sent = Some(value)
                            /\ n.total_sounds_sent = m.total_sounds_sent + 1
               /\ ~AtOp(0, "Snd")
                     => n.total_sounds_sent = m.total_sounds_sent ]_vars

\* both snd a have run with a = 1 and the queue has been taken since: the
\* counter says 2 although the outbound queue is empty
C14_CountKeptAfterTakeSeen ==
    /\ instructions = << Snd(Register("a")), Snd(Register("a")) >>
    /\ is_halted(comp[0])
    /\ comp[0].pc = 2
    /\ comp[0].sounds_sent = << >>
    /\ comp[0].total_sounds_sent = 2
    /\ comp[0].last_sound_sent = Some(1)

\* C15: calling execute on a machine that is already halted is a no-op: the
\* call returns without running an instruction, and registers, program
\* counter, both queues, both flags, the total-sent counter, the last sent
\* value and the multiply counter are all unchanged.
C15_ExecuteOnHaltedIsNoOp ==
    [][ \A i \in {0, 1} :
          (drv = ExecPlace(i) /\ ~executing[i] /\ is_halted(comp[i]))
          => (comp'[i] = comp[i] /\ ~executing'[i]) ]_vars

\* the second round of snd p, jgz p 2, rcv a: program 1 halted in the first
\* round, program 0 has since consumed the 1 it sent and halted too, and the
\* driver has gone past its second call of execute on program 1
C15_HaltedExecutedAgainSeen ==
    /\ instructions = << Snd(Register("p")), Jgz(Register("p"), Value(2)),
                         Rcv("a") >>
    /\ drv = "xfer0"
    /\ is_halted(comp[0])
    /\ is_halted(comp[1])
    /\ comp[0].registers["a"] = 1
    /\ comp[1].pc = 3
    /\ comp[1].total_sounds_sent = 1

\* machine m is as the constructor is claimed to leave it
Cleared(m) ==
    /\ DOMAIN m.registers =
          { "a", "b", "c", "d", "e", "f", "g", "h", "i", "j", "k", "l", "m",
            "n", "o", "p", "q", "r", "s", "t", "u", "v", "w", "x", "y", "z" }
    /\ \A c \in DOMAIN m.registers : m.registers[c] = 0
    /\ m.pc = 0
    /\ m.sounds_sent = << >>
    /\ m.sounds_received = << >>
    /\ ~m.halted
    /\ ~m.awaiting_input
    /\ m.total_sounds_sent = 0
    /\ m.last_sound_sent = None

\* C16: SoundComputer::new returns a machine with all 26 registers a..z at
\* 0, program counter 0, both queues empty, halted and awaiting_input false,
\* total-sent counter 0 and no last sent value, for either mode and for any
\* program, the empty one included; the mode is the one passed and stays.
C16_NewIsCleared ==
    /\ Cleared(comp[0])
    /\ Cleared(comp[1])
    /\ [][ \A i \in {0, 1} : comp'[i].duet_mode = comp[i].duet_mode ]_vars

\* a standalone machine just built for set a 1, add a 2, rcv a
C16_BuiltStandaloneSeen ==
    /\ instructions = RecoverProgram
    /\ ~comp[0].duet_mode
    /\ ~executing[0]
    /\ Cleared(comp[0])

\* prog consists solely of set, add, sub, mul and mod on register r, with
\* literals or r itself as operands
OnlyArithmeticOn(prog, r) ==
    \A k \in 1 .. Len(prog) :
        /\ prog[k].op \in {"Set", "Add", "Sub", "Mul", "Mod"}
        /\ prog[k].reg = r
        /\ prog[k].arg.kind = "Register" => prog[k].arg.reg = r

\* the first k operations of prog folded left to right starting from 0;
\* None when the fold meets a modulo by zero.  mod is the remainder with the
\* sign of the dividend.
RECURSIVE FoldTo(_, _)
FoldTo(prog, k) ==
    IF k = 0 THEN Some(0)
    ELSE LET prev == FoldTo(prog, k - 1)
         IN  IF prev = None THEN None
             ELSE LET acc == prev[1]
                      ins == prog[k]
                      v == IF ins.arg.kind = "Value" THEN ins.arg.val ELSE acc
                  IN  CASE ins.op = "Set" -> Some(v)
                        [] ins.op = "Add" -> Some(acc + v)
                        [] ins.op = "Sub" -> Some(acc - v)
                        [] ins.op = "Mul" -> Some(acc * v)
                        [] ins.op = "Mod" ->
                             IF v = 0 THEN None
                             ELSE IF acc < 0
                                  THEN Some(0 - ((0 - acc) % unsigned_abs(v)))
                                  ELSE Some(acc % unsigned_abs(v))
                        [] OTHER -> None

\* the fold of prog stays inside what the model lets a machine hold
FoldWithinBounds(prog) ==
    /\ \A k \in 0 .. Len(prog) :
          FoldTo(prog, k) \in {Some(v) : v \in RunVals}
    /\ Cardinality({k \in 1 .. Len(prog) : prog[k].op = "Mul"}) <= MaxMul

\* C17: for every program that consists solely of set, add, sub, mul and mod
\* on a single register, without a modulo by zero, running a fresh machine
\* until it halts leaves that register equal to the fold of the operations
\* left to right starting from 0, with the machine halted; and the run does
\* get there.
C17_ArithmeticRunEqualsFold ==
    /\ [](\A r \in RegisterNames :
            (OnlyArithmeticOn(instructions, r)
               /\ FoldTo(instructions, Len(instructions)) # None
               /\ is_halted(comp[0]))
            => Some(comp[0].registers[r])
                  = FoldTo(instructions, Len(instructions)))
    /\ \A r \in {"a", "b"} :
          (OnlyArithmeticOn(instructions, r) /\ FoldWithinBounds(instructions))
          ~> (is_halted(comp[0])
                /\ Some(comp[0].registers[r])
                      = FoldTo(instructions, Len(instructions)))

\* set a 1, sub a 3, mul a a has run to its end: a is (1 - 3) * (1 - 3) = 4
C17_FoldedToFourSeen ==
    /\ instructions = << Set("a", Value(1)), Sub("a", Value(3)),
                         Mul("a", Register("a")) >>
    /\ is_halted(comp[0])
    /\ comp[0].pc = 3
    /\ comp[0].registers["a"] = 4
    /\ FoldTo(instructions, 3) = Some(4)

\* the operand of the arithmetic instruction machine 0 is on, resolved
\* against the registers as they are before the step
OperandBefore ==
    IF Cur(0).arg.kind = "Value" THEN Cur(0).arg.val
    ELSE comp[0].registers[Cur(0).arg.reg]

\* what the arithmetic instruction machine 0 is on makes of its target
\* register and its operand
ArithmeticResult ==
    LET old == comp[0].registers[Cur(0).reg]
        v == OperandBefore
    IN  CASE Cur(0).op = "Set" -> v
          [] Cur(0).op = "Add" -> old + v
          [] Cur(0).op = "Sub" -> old - v
          [] Cur(0).op = "Mul" -> old * v
          [] Cur(0).op = "Mod" -> Rem(old, v)
          [] OTHER -> old

\* C18: executing Set, Add, Sub, Mul or Mod resolves the operand against the
\* register bank as it is before the write, writes the result into the
\* target register only, advances the program counter by 1 and leaves every
\* other register, both queues, the halted and awaiting_input flags and the
\* sent counters unchanged (a Mod whose operand resolves to 0 aside).
C18_ArithmeticWritesTargetOnly ==
    [][ ((\E op \in {"Set", "Add", "Sub", "Mul", "Mod"} : AtOp(0, op))
           /\ ~(Cur(0).op = "Mod" /\ OperandBefore = 0))
        => LET m == comp[0]
               n == comp'[0]
           IN  /\ n.registers
                     = [m.registers EXCEPT ![Cur(0).reg] = ArithmeticResult]
               /\ n.pc = m.pc + 1
               /\ n.sounds_sent = m.sounds_sent
               /\ n.sounds_received = m.sounds_received
               /\ n.halted = m.halted
               /\ n.awaiting_input = m.awaiting_input
               /\ n.total_sounds_sent = m.total_sounds_sent
               /\ n.last_sound_sent = m.last_sound_sent ]_vars

\* snd a, set b 2, add a b has run its add: a holds the 2 read from b, and
\* the sound sent before is still queued and counted
C18_AddedFromRegisterSeen ==
    /\ instructions = << Snd(Register("a")), Set("b", Value(2)),
                         Add("a", Register("b")) >>
    /\ comp[0].pc = 3
    /\ comp[0].registers["a"] = 2
    /\ comp[0].registers["b"] = 2
    /\ comp[0].sounds_sent = << 0 >>
    /\ comp[0].total_sounds_sent = 1
    /\ comp[0].last_sound_sent = Some(0)

\* machine 0 is running the scenario program with its pc on index k
ScenarioAt(k) ==
    /\ instructions = ScenarioProgram
    /\ executing[0]
    /\ comp[0].pc = k

\* the steps of the scenario up to its snd: a becomes 1, 3, 9 and 4, and the
\* 4 is sent
ScenarioUpToSnd ==
    /\ ScenarioAt(0) => (comp[0].registers["a"] = 0
                           /\ comp'[0].registers["a"] = 1)
    /\ ScenarioAt(1) => comp'[0].registers["a"] = 3
    /\ ScenarioAt(2) => comp'[0].registers["a"] = 9
    /\ ScenarioAt(3) => comp'[0].registers["a"] = 4
    /\ ScenarioAt(4) => /\ comp'[0].sounds_sent = Append(comp[0].sounds_sent, 4)
                        /\ comp'[0].last_sound_sent = Some(4)
                        /\ comp'[0].registers["a"] = 4

\* C19 as claimed: for the program set a 1, add a 2, mul a a, mod a 5, snd a,
\* jgz a -1, set a 1 run on a standalone machine, register a takes the values
\* 1, 3, 9, 4 in that order, the value 4 is sent, and the following jgz
\* (first operand 4, offset -1) jumps back to instruction 0.
C19_ScenarioJumpsToStart ==
    [][ /\ ScenarioUpToSnd
        /\ ScenarioAt(5) => (comp[0].registers["a"] = 4 /\ comp'[0].pc = 0)
      ]_vars

\* C19 as amended: register a takes the values 1, 3, 9, 4 in that order, the
\* value 4 is sent, and the following jgz (first operand 4, offset -1) jumps
\* back to instruction 4, the snd a, with the machine not halted.
C19_ScenarioJumpsToSnd ==
    [][ /\ ScenarioUpToSnd
        /\ ScenarioAt(5) => /\ comp[0].registers["a"] = 4
                            /\ comp'[0].pc = 4
                            /\ ~is_halted(comp'[0])
                            /\ executing'[0]
      ]_vars

\* the scenario is back on its snd a after the jgz: one 4 has been sent and
\* the next is about to be
C19_BackOnSndSeen ==
    /\ ScenarioAt(4)
    /\ ~comp[0].duet_mode
    /\ comp[0].registers["a"] = 4
    /\ comp[0].sounds_sent = << 4 >>
    /\ comp[0].total_sounds_sent = 1
    /\ comp[0].mul_executions_count = 1

\* C20: suspension occurs only at a Rcv with an empty inbound queue: in every
\* reachable state where awaiting_input is true, the program counter indexes
\* a Rcv instruction and the machine's inbound queue is empty.
C20_AwaitingOnlyAtStarvedRcv ==
    \A i \in {0, 1} :
        is_awaiting_input(comp[i])
        => /\ comp[i].pc < Len(instructions)
           /\ instructions[comp[i].pc + 1].op = "Rcv"
           /\ comp[i].sounds_received = << >>

\* a duet machine has sent once and is suspended on the rcv at index 1
C20_SuspendedOnRcvSeen ==
    /\ instructions = << Snd(Register("a")), Rcv("a") >>
    /\ comp[0].duet_mode
    /\ is_awaiting_input(comp[0])
    /\ ~executing[0]
    /\ comp[0].pc = 1
    /\ comp[0].sounds_received = << >>
    /\ comp[0].total_sounds_sent = 1

\* C21: solve_part1 returns the most recently sent sound at the first Rcv
\* executed with a non-zero target register: such a Rcv ends the call of
\* execute with the last sent sound as it was, and a Rcv executed while its
\* target register is zero does not end the run.
C21_Part1EndsAtFirstNonzeroRcv ==
    [][ (drv = "p1_exec" /\ AtOp(0, "Rcv"))
        => /\ comp[0].registers[Cur(0).reg] # 0
                 => /\ drv' = "p1_last"
                    /\ ~executing'[0]
                    /\ get_last_sent_sound(comp'[0])
                          = get_last_sent_sound(comp[0])
           /\ comp[0].registers[Cur(0).reg] = 0
                 => (drv' = "p1_exec" /\ executing'[0]) ]_vars

\* the driver is between two rounds: the transfers of the round are done and
\* the halting conditions are about to be tested
RoundEnd == drv = "check"

\* C22 as claimed: in every round of the duet driver, after both machines
\* have run their burst, all values in either machine's outbound queue are
\* drained and delivered to the other machine, so both outbound queues are
\* empty at the end of every round.
C22_OutboundEmptyAtRoundEnd ==
    RoundEnd => \A i \in {0, 1} : comp[i].sounds_sent = << >>

\* C22 as amended: a machine's outbound queue is drained and delivered only
\* when the other machine is awaiting input after the bursts, so at the end
\* of every round an outbound queue is empty unless the machine it would be
\* delivered to is halted.
C22_OutboundEmptyUnlessPartnerHalted ==
    RoundEnd => \A i \in {0, 1} :
                    comp[i].sounds_sent # << >> => is_halted(comp[1 - i])

\* snd p, rcv a, rcv a after its second round: each program has been handed
\* the other's value and consumed it, and both outbound queues are empty
\* although each program has sent
C22_DrainedAndDeliveredSeen ==
    /\ instructions = << Snd(Register("p")), Rcv("a"), Rcv("a") >>
    /\ RoundEnd
    /\ comp[0].registers["a"] = 1
    /\ comp[1].registers["a"] = 0
    /\ comp[0].pc = 2
    /\ comp[1].pc = 2
    /\ \A i \in {0, 1} : comp[i].sounds_sent = << >>
    /\ \A i \in {0, 1} : comp[i].total_sounds_sent = 1

\* the 26 register names the claims speak of
Alphabet ==
    { "a", "b", "c", "d", "e", "f", "g", "h", "i", "j", "k", "l", "m",
      "n", "o", "p", "q", "r", "s", "t", "u", "v", "w", "x", "y", "z" }

\* names the register access is probed with: inside and outside a..z
ProbeNames == { "a", "p", "z", "A", "Z", "0", "{" }

\* C23: read_register and update_register return a lookup error for any name
\* outside a..z and succeed for every name in a..z; a failed update_register
\* leaves the register bank unchanged, and after any sequence of operations
\* the bank holds exactly the 26 names a..z.
C23_RegisterAccessChecksName ==
    /\ DOMAIN comp[0].registers = Alphabet
    /\ \A r \in ProbeNames :
          LET rd == read_register(comp[0], r)
              wr == update_register(comp[0], r, 2)
          IN  /\ rd.ok <=> r \in Alphabet
              /\ rd.ok => rd.val = comp[0].registers[r]
              /\ wr.ok <=> r \in Alphabet
              /\ ~wr.ok => wr.m = comp[0]
              /\ wr.ok => wr.m.registers
                             = [comp[0].registers EXCEPT ![r] = 2]

\* a machine with nothing to run that has not been executed: only
\* update_register can have given p and a these values, and the calls made
\* with the name A have left no trace
C23_UpdatedByNameSeen ==
    /\ instructions = << >>
    /\ ~is_halted(comp[0])
    /\ comp[0].registers["p"] = 2
    /\ comp[0].registers["a"] = -1
    /\ DOMAIN comp[0].registers = Alphabet

\* machine n is machine m but for its inbound queue and awaiting_input flag
SameButInbound(m, n) ==
    n = [m EXCEPT !.sounds_received = n.sounds_received,
                  !.awaiting_input = n.awaiting_input]

\* machine n is machine m but for its outbound queue
SameButOutbound(m, n) == n = [m EXCEPT !.sounds_sent = n.sounds_sent]

\* C24: two machines built from the same program share no mutable state: a
\* call of execute or update_register on one never changes the other (after
\* update_register('p', 1) on program 1, register p of program 0 is still
\* 0), and values pass between them only when the driver moves the result of
\* take_sent_sounds into receive_sounds, which touches only the sender's
\* outbound queue and the receiver's inbound queue and awaiting_input flag.
C24_MachinesShareNothing ==
    [][ /\ drv = "setup"
              => /\ comp'[0] = comp[0]
                 /\ comp'[0].registers["p"] = 0
                 /\ comp'[1].registers["p"] = 1
        /\ \A i \in {0, 1} : drv = ExecPlace(i) => comp'[1 - i] = comp[1 - i]
        /\ drv \in {"check", "done"} => comp' = comp
        /\ \A to \in {0, 1} :
              drv = (IF to = 0 THEN "xfer0" ELSE "xfer1")
              => /\ SameButInbound(comp[to], comp'[to])
                 /\ SameButOutbound(comp[1 - to], comp'[1 - to])
                 /\ Len(comp'[to].sounds_received) - Len(comp[to].sounds_received)
                       = Len(comp[1 - to].sounds_sent)
                            - Len(comp'[1 - to].sounds_sent) ]_vars

\* program 0 has run jgz p 2, snd a, rcv a up to its rcv, while program 1,
\* built from the same program, is still as constructed but for its p
C24_OneRanOtherUntouchedSeen ==
    /\ instructions = << Jgz(Register("p"), Value(2)), Snd(Register("a")),
                         Rcv("a") >>
    /\ drv = "exec1"
    /\ ~executing[1]
    /\ comp[0].pc = 2
    /\ comp[0].total_sounds_sent = 1
    /\ is_awaiting_input(comp[0])
    /\ comp[0].registers["p"] = 0
    /\ comp[1] = [new(TRUE) EXCEPT !.registers["p"] = 1]

\* field f is a register letter of the program text format
IsRegisterLetter(f) == f \in { << c >> : c \in Alphabet }

\* field f is an optionally signed decimal integer
IsInteger(f) ==
    LET body == IF f # << >> /\ f[1] = "-" THEN Tail(f) ELSE f
    IN  /\ body # << >>
        /\ \A k \in 1 .. Len(body) :
              body[k] \in {"0", "1", "2", "3", "4", "5", "6", "7", "8", "9"}

\* line s follows one of the nine instruction grammars: snd X, set R X,
\* add R X, mul R X, mod R X, rcv R, jgz X Y, sub R X, jnz X Y
FollowsGrammar(s) ==
    LET f == Fields(s)
        R(x) == IsRegisterLetter(x)
        X(x) == IsRegisterLetter(x) \/ IsInteger(x)
    IN  \/ Len(f) = 2 /\ f[1] = << "s", "n", "d" >> /\ X(f[2])
        \/ Len(f) = 2 /\ f[1] = << "r", "c", "v" >> /\ R(f[2])
        \/ /\ Len(f) = 3
           /\ f[1] \in { << "s", "e", "t" >>, << "a", "d", "d" >>,
                         << "m", "u", "l" >>, << "m", "o", "d" >>,
                         << "s", "u", "b" >> }
           /\ R(f[2]) /\ X(f[3])
        \/ /\ Len(f) = 3
           /\ f[1] \in { << "j", "g", "z" >>, << "j", "n", "z" >> }
           /\ X(f[2]) /\ X(f[3])

\* the text being loaded has a line that follows none of the grammars
HasBadLine == \E k \in 1 .. Len(raw_input) : ~FollowsGrammar(raw_input[k])

\* argument a is a literal or a register of a..z
WellFormedArgument(a) ==
    \/ a.kind = "Value"
    \/ a.kind = "Register" /\ a.reg \in Alphabet

\* instruction ins is one of the nine variants over registers of a..z
WellFormed(ins) ==
    \/ ins.op = "Snd" /\ WellFormedArgument(ins.arg)
    \/ ins.op = "Rcv" /\ ins.reg \in Alphabet
    \/ /\ ins.op \in {"Set", "Add", "Mul", "Mod", "Sub"}
       /\ ins.reg \in Alphabet
       /\ WellFormedArgument(ins.arg)
    \/ /\ ins.op \in {"Jgz", "Jnz"}
       /\ WellFormedArgument(ins.arg1)
       /\ WellFormedArgument(ins.arg2)

C26_JnzJumpsOnNonzero ==
    [][ AtOp(0, "Jnz")
        => /\ (JgzCheckValue # 0 /\ comp[0].pc + JgzOffset >= 0)
                 => (comp'[0].pc = comp[0].pc + JgzOffset
                        /\ ~is_halted(comp'[0]))
           /\ (JgzCheckValue # 0 /\ comp[0].pc + JgzOffset < 0)
                 => (comp'[0].pc = comp[0].pc /\ is_halted(comp'[0])
                        /\ ~executing'[0])
           /\ JgzCheckValue = 0
                 => (comp'[0].pc = comp[0].pc + 1 /\ ~is_halted(comp'[0]))
           /\ JgzFrame ]_vars

\* jnz a p, snd a with a = -1 and p = 2: inside this call of execute the
\* jump was taken over the snd, which has not run, to the end of the program
C26_NegativeOperandJumpedSeen ==
    /\ instructions = << Jnz(Register("a"), Register("p")), Snd(Register("a")) >>
    /\ executing[0]
    /\ ~is_halted(comp[0])
    /\ comp[0].pc = 2
    /\ comp[0].registers["a"] = -1
    /\ comp[0].registers["p"] = 2
    /\ comp[0].total_sounds_sent = 0

\* C27: calling execute on a machine whose awaiting_input flag is set
\* changes nothing of it and runs no instruction; while the flag is set the
\* program counter does not move, and the flag is only cleared with a
\* non-empty inbound queue, which receive_sounds has delivered.
C27_ExecuteOnAwaitingIsNoOp ==
    [][ \A i \in {0, 1} :
          is_awaiting_input(comp[i])
          => /\ ~executing'[i]
             /\ comp'[i].pc = comp[i].pc
             /\ comp'[i].registers = comp[i].registers
             /\ drv = ExecPlace(i) => comp'[i] = comp[i]
             /\ ~is_awaiting_input(comp'[i])
                   => (drv \in {"xfer0", "xfer1"}
                         /\ comp'[i].sounds_received # << >>) ]_vars

\* the second round of jgz p 2, snd a, rcv a: program 0 was left awaiting by
\* an empty delivery while program 1 was handed the 0, and the driver has
\* gone past its call of execute on program 0, which still awaits
C27_AwaitingExecutedAgainSeen ==
    /\ instructions = << Jgz(Register("p"), Value(2)), Snd(Register("a")),
                         Rcv("a") >>
    /\ drv = "exec1"
    /\ ~executing[1]
    /\ is_awaiting_input(comp[0])
    /\ comp[0].pc = 2
    /\ ~is_awaiting_input(comp[1])
    /\ comp[1].sounds_received = << 0 >>

\* C28: whenever the duet driver loop exits, no machine could still make
\* progress: every machine that is not halted is awaiting input with an
\* empty inbound queue, and its partner's outbound queue is empty, so no
\* sent value is left undelivered to a machine that is waiting for it.
C28_NothingLeftToDoAtExit ==
    drv = "done"
    => \A i \in {0, 1} :
          ~is_halted(comp[i])
          => /\ is_awaiting_input(comp[i])
             /\ comp[i].sounds_received = << >>
             /\ comp[1 - i].sounds_sent = << >>

\* snd p, rcv a, rcv a after the loop: each program consumed the other's
\* value in the second round and waits on its second rcv with nothing queued
\* on either side
C28_ExitedWithBothStarvedSeen ==
    /\ instructions = << Snd(Register("p")), Rcv("a"), Rcv("a") >>
    /\ drv = "done"
    /\ \A i \in {0, 1} :
          /\ is_awaiting_input(comp[i])
          /\ comp[i].pc = 2
          /\ comp[i].registers["a"] = 1 - i
          /\ comp[i].sounds_received = << >>
          /\ comp[i].sounds_sent = << >>

\* the values sent to machine i that it has not consumed yet, oldest first:
\* its inbound queue, then what its partner has sent and the driver has not
\* moved yet
InFlightTo(c, i) == c[i].sounds_received \o c[1 - i].sounds_sent

\* C29: under the duet driver the values a machine consumes through Rcv are,
\* in order, the values its partner produced through Snd: a Snd of the
\* partner puts its value behind all values in flight to the machine, a Rcv
\* of the machine takes the oldest value in flight into its register, and no
\* other step, take_sent_sounds and receive_sounds included, changes the
\* values in flight, so none is lost, duplicated or reordered and what has
\* been consumed is always a prefix of what has been produced.
C29_ConsumedInSendOrder ==
    [][ \A i \in {0, 1} :
          LET old == InFlightTo(comp, i)
              new_ == InFlightTo(comp', i)
          IN  IF drv = ExecPlace(1 - i) /\ AtOp(1 - i, "Snd")
              THEN new_ = Append(old,
                       decode_instruction_argument(comp[1 - i],
                                                   Cur(1 - i).arg).val)
              ELSE IF drv = ExecPlace(i) /\ AtOp(i, "Rcv") /\ old # << >>
                        /\ ~is_awaiting_input(comp'[i])
              THEN /\ new_ = Tail(old)
                   /\ comp'[i].registers[Cur(i).reg] = Head(old)
              ELSE new_ = old ]_vars

\* snd p, snd a, rcv a: program 0 was handed the 1 and the 0 that program 1
\* sent, in that order, and its rcv has consumed the 1 and left the 0
C29_OldestConsumedFirstSeen ==
    /\ instructions = << Snd(Register("p")), Snd(Register("a")), Rcv("a") >>
    /\ is_halted(comp[0])
    /\ comp[0].registers["a"] = 1
    /\ comp[0].sounds_received = << 0 >>
    /\ comp[1].sounds_sent = << >>

\* the number of elements of strand equal to v
Occurrences(strand, v) ==
    Cardinality({k \in 1 .. Len(strand) : strand[k] = v})

\* the returned strand holds the elements of the strand given, each as
\* often as it was given
ReturnedPermutation ==
    /\ Len(knot.strand) = Len(knot.strand_arg)
    /\ \A k \in 1 .. Len(knot.strand_arg) :
          Occurrences(knot.strand, knot.strand_arg[k]) =
             Occurrences(knot.strand_arg, knot.strand_arg[k])

ReturnedSkipCounts == knot.skip = knot.skip_arg + Len(knot.lengths)

\* C30 (as stated): for every non-empty strand, list of lengths, starting
\* cursor and skip, calculate_sparse_hash returns a permutation of the strand,
\* a cursor strictly below the strand length, and the skip given plus the
\* number of lengths.
C30_ReturnsPermutationCursorSkip ==
    (drv = "knot" /\ knot.returned) =>
        /\ ReturnedPermutation
        /\ knot.cursor < Len(knot.strand_arg)
        /\ ReturnedSkipCounts

\* C30 (amended): calculate_sparse_hash returns a permutation of the strand
\* and the skip given plus the number of lengths; the cursor returned is
\* strictly below the strand length when the list of lengths is not empty,
\* and is the starting cursor, whatever it was, when the list is empty.
C30_ReturnsPermutationWrappedCursorSkip ==
    (drv = "knot" /\ knot.returned) =>
        /\ ReturnedPermutation
        /\ ReturnedSkipCounts
        /\ IF knot.lengths = << >>
             THEN knot.cursor = knot.cursor_arg /\ knot.strand = knot.strand_arg
             ELSE knot.cursor < Len(knot.strand_arg)

\* a length of 4 on the strand 0, 1, 2 from cursor 0 and skip 0 has
\* returned 0, 2, 1 with cursor 1 and skip 1
C30_LengthBeyondStrandReturnedSeen ==
    /\ drv = "knot"
    /\ knot.returned
    /\ knot.strand_arg = <<0, 1, 2>>
    /\ knot.lengths = <<4>>
    /\ knot.cursor_arg = 0
    /\ knot.skip_arg = 0
    /\ knot.strand = <<0, 2, 1>>
    /\ knot.cursor = 1
    /\ knot.skip = 1

====
